---- MODULE Spec2Model ----
(***************************************************************************)
(* Model of src/features/folding.rs: get_folding_ranges, the brace scan    *)
(* that turns a CSS source text into folding ranges.                       *)
(*                                                                         *)
(* A source text is a sequence of characters.  Characters are strings;     *)
(* "e'" stands for a two-byte UTF-8 character (such as U+00E9), so that    *)
(* the byte offsets of char_indices()/match_indices() differ from the      *)
(* character indices.                                                      *)
(***************************************************************************)
EXTENDS Naturals, Integers, Sequences, FiniteSets, TLC

\* Longest source text explored.
MaxLen == 6

\* Longest source text explored when it has no other chars than '{', '}' and
\* line breaks.
MaxBraceLen == 9

\* Largest value explored for the bits of a line number above the low 32.
MaxTop == 1

\* Number of invocations of get_folding_ranges explored on one source.
MaxCalls == 2

Alphabet == {"{", "}", "\n", "a", "e'"}

None == "None"

VARIABLES
    source,          \* the &str argument, as a sequence of chars
    line_starts,     \* Vec<usize> built before the loop
    i,               \* position of the char_indices() iterator (1-based index of the next char)
    stack,           \* Vec<(usize, usize)> of (offset, line_number) of open braces
    folding_ranges,  \* Vec<FoldingRange>, the result
    pc,              \* "build", "scan", "done" or "panic"
    popped,          \* history: one record per successful stack.pop()
    calls,           \* number of the current invocation on this source
    prev_result      \* what the previous invocation on this source returned

vars == <<source, line_starts, i, stack, folding_ranges, pc, popped, calls, prev_result>>

----------------------------------------------------------------------------
(* Text primitives *)

\* Number of bytes of the UTF-8 encoding of a char.
Utf8Len(c) == IF c = "e'" THEN 2 ELSE 1

\* Byte offset of the k-th char of src (1-based k), as char_indices() yields
\* it; ByteOffset(src, Len(src) + 1) is the byte length of src.
RECURSIVE ByteOffset(_, _)
ByteOffset(src, k) ==
    IF k <= 1 THEN 0 ELSE ByteOffset(src, k - 1) + Utf8Len(src[k - 1])

\* source.match_indices('\n').map(|(idx, _)| idx + 1), for the chars from k on.
RECURSIVE MatchIndicesPlusOne(_, _)
MatchIndicesPlusOne(src, k) ==
    IF k > Len(src) THEN <<>>
    ELSE IF src[k] = "\n"
         THEN <<ByteOffset(src, k) + 1>> \o MatchIndicesPlusOne(src, k + 1)
         ELSE MatchIndicesPlusOne(src, k + 1)

\* Mutant of LineStarts: the line breaks are located by char index
\* (chars().enumerate()) instead of by byte offset.
LineStarts_CharIndex(src) ==
    <<0>> \o SelectSeq([k \in 1..Len(src) |-> IF src[k] = "\n" THEN k ELSE 0],
                       LAMBDA x : x # 0)

\* Mutant of LineStarts: the leading once(0) is forgotten.
LineStarts_NoZero(src) == MatchIndicesPlusOne(src, 1)

\* Mutant of LineStarts: the "+ 1" is forgotten, a line starts at its break.
LineStarts_AtBreak(src) ==
    <<0>> \o [n \in 1..Len(MatchIndicesPlusOne(src, 1)) |->
                 MatchIndicesPlusOne(src, 1)[n] - 1]

\* std::iter::once(0).chain(...).collect()
LineStarts(src) == <<0>> \o MatchIndicesPlusOne(src, 1)

\* Mutant of BinarySearch: the predicate is "line_start < offset".
RECURSIVE BinarySearch_Strict(_, _, _, _)
BinarySearch_Strict(ls, offset, left, right) ==
    IF left >= right THEN left
    ELSE LET mid == left + ((right - left) \div 2)
         IN  IF ls[mid + 1] < offset
             THEN BinarySearch_Strict(ls, offset, mid + 1, right)
             ELSE BinarySearch_Strict(ls, offset, left, mid)

\* slice::partition_point(|&line_start| line_start <= offset): a binary
\* search for the first index (0-based) whose element fails the predicate.
RECURSIVE BinarySearch(_, _, _, _)
BinarySearch(ls, offset, left, right) ==
    IF left >= right THEN left
    ELSE LET mid == left + ((right - left) \div 2)
         IN  IF ls[mid + 1] <= offset
             THEN BinarySearch(ls, offset, mid + 1, right)
             ELSE BinarySearch(ls, offset, left, mid)

PartitionPoint(ls, offset) == BinarySearch(ls, offset, 0, Len(ls))

\* The subtraction "partition_point(..) - 1" on usize underflows when the
\* partition point is 0.
Underflows(ls, offset) == PartitionPoint(ls, offset) = 0

\* let line_number = line_starts.partition_point(..) - 1;
LineNumber(ls, offset) == PartitionPoint(ls, offset) - 1

\* "as u32": the value modulo 2^32, computed on the two 16-bit halves.
AsU32(n) == ((n \div 65536) % 65536) * 65536 + (n % 65536)

----------------------------------------------------------------------------
(* The body of the loop *)

\* Mutant of MakeRange: the range is tagged with a kind.
MakeRange_Kind(start_line, line_number) ==
    [start_line      |-> AsU32(start_line),
     start_character |-> None,
     end_line        |-> AsU32(line_number),
     end_character   |-> None,
     kind            |-> "Region",
     collapsed_text  |-> None]

\* FoldingRange { start_line: .., start_character: None, end_line: .., .. }
MakeRange(start_line, line_number) ==
    [start_line      |-> AsU32(start_line),
     start_character |-> None,
     end_line        |-> AsU32(line_number),
     end_character   |-> None,
     kind            |-> None,
     collapsed_text  |-> None]

\* Mutant of ShouldEmit: single-line pairs are emitted too.
ShouldEmit_Geq(line_number, start_line) == line_number >= start_line

\* if line_number > start_line
ShouldEmit(line_number, start_line) == line_number > start_line

\* Mutant of Pop: the top is read but not removed.
Pop_Peek(stk) == [entry |-> stk[Len(stk)], rest |-> stk]

\* Mutant of Pop: the oldest entry is taken.
Pop_Front(stk) == [entry |-> stk[1], rest |-> Tail(stk)]

\* stack.pop() on a non-empty stack: the last entry, and what remains.
Pop(stk) == [entry |-> stk[Len(stk)], rest |-> SubSeq(stk, 1, Len(stk) - 1)]

\* Mutant of Push: the range is put in front.
Push_Front(ranges, r) == <<r>> \o ranges

\* folding_ranges.push(folding_range)
Push(ranges, r) == Append(ranges, r)

\* The state of one invocation before the loop.
Fresh == [stack |-> <<>>, folding_ranges |-> <<>>, popped |-> <<>>, panicked |-> FALSE]

\* Mutant of OnOpen: the tuple is pushed as (line_number, offset).
OnOpen_Swapped(st, ls, offset) ==
    IF Underflows(ls, offset)
    THEN [st EXCEPT !.panicked = TRUE]
    ELSE [st EXCEPT !.stack = Append(st.stack,
                                 [offset |-> LineNumber(ls, offset), line |-> offset])]

\* Mutant of OnOpen: the entry is inserted at the bottom of the stack.
OnOpen_Front(st, ls, offset) ==
    IF Underflows(ls, offset)
    THEN [st EXCEPT !.panicked = TRUE]
    ELSE [st EXCEPT !.stack = <<[offset |-> offset, line |-> LineNumber(ls, offset)]>>
                                 \o st.stack]

\* if c == '{' { ... stack.push((offset, line_number)); }
OnOpen(st, ls, offset) ==
    IF Underflows(ls, offset)
    THEN [st EXCEPT !.panicked = TRUE]
    ELSE [st EXCEPT !.stack = Append(st.stack,
                                 [offset |-> offset, line |-> LineNumber(ls, offset)])]

\* Mutant of OnNone: an unmatched '}' is treated as a failure (pop().unwrap()).
OnNone_Unwrap(st) == [st EXCEPT !.panicked = TRUE]

\* stack.pop() returned None: the "if let" body is skipped.
OnNone(st) == st

\* if let Some((_start_offset, start_line)) = stack.pop() { ... }
OnSome(st, offset, line_number) ==
    LET p          == Pop(st.stack)
        start_line == p.entry.line
        emit       == ShouldEmit(line_number, start_line)
    IN  [stack          |-> p.rest,
         folding_ranges |->
             IF emit
             THEN Push(st.folding_ranges, MakeRange(start_line, line_number))
             ELSE st.folding_ranges,
         popped         |->
             Append(st.popped,
                    [open_offset  |-> p.entry.offset,
                     start_line   |-> start_line,
                     close_offset |-> offset,
                     line_number  |-> line_number,
                     emitted      |-> emit]),
         panicked       |-> FALSE]

\* else if c == '}' { let line_number = ...; if let Some(..) = stack.pop() { ... } }
OnClose(st, ls, offset) ==
    IF Underflows(ls, offset)
    THEN [st EXCEPT !.panicked = TRUE]
    ELSE IF st.stack = <<>>
         THEN OnNone(st)
         ELSE OnSome(st, offset, LineNumber(ls, offset))

\* Mutant of Step: "else if c == '}'" is a plain "else".
Step_ElseClose(st, ls, c, offset) ==
    IF c = "{" THEN OnOpen(st, ls, offset) ELSE OnClose(st, ls, offset)

\* One iteration of "for (offset, c) in source.char_indices()".
Step(st, ls, c, offset) ==
    IF c = "{" THEN OnOpen(st, ls, offset)
    ELSE IF c = "}" THEN OnClose(st, ls, offset)
    ELSE st

\* The whole loop on src from char k on, stopping at a panic.
RECURSIVE Loop(_, _, _, _)
Loop(st, src, ls, k) ==
    IF k > Len(src) \/ st.panicked THEN st
    ELSE Loop(Step(st, ls, src[k], ByteOffset(src, k)), src, ls, k + 1)

\* get_folding_ranges(source) as a function of the source.
get_folding_ranges(src) == Loop(Fresh, src, LineStarts(src), 1).folding_ranges

----------------------------------------------------------------------------
(* The invocation as a state machine *)

Sources == UNION {[1..n -> Alphabet] : n \in 0..MaxLen}

Init ==
    /\ source \in Sources
    /\ line_starts = <<>>
    /\ i = 1
    /\ stack = <<>>
    /\ folding_ranges = <<>>
    /\ pc = "build"
    /\ popped = <<>>
    /\ calls = 1
    /\ prev_result = <<>>

\* let line_starts: Vec<usize> = ...collect();
BuildLineStarts ==
    /\ pc = "build"
    /\ line_starts' = LineStarts(source)
    /\ pc' = "scan"
    /\ UNCHANGED <<source, i, stack, folding_ranges, popped, calls, prev_result>>

Current == [stack |-> stack, folding_ranges |-> folding_ranges,
            popped |-> popped, panicked |-> FALSE]

Apply(st) ==
    /\ stack' = st.stack
    /\ folding_ranges' = st.folding_ranges
    /\ popped' = st.popped
    /\ pc' = IF st.panicked THEN "panic" ELSE "scan"
    /\ i' = IF st.panicked THEN i ELSE i + 1
    /\ UNCHANGED <<source, line_starts, calls, prev_result>>

\* A loop iteration on '{'.
ScanOpen ==
    /\ pc = "scan"
    /\ i <= Len(source)
    /\ source[i] = "{"
    /\ Apply(OnOpen(Current, line_starts, ByteOffset(source, i)))

\* A loop iteration on '}'.
ScanClose ==
    /\ pc = "scan"
    /\ i <= Len(source)
    /\ source[i] = "}"
    /\ Apply(OnClose(Current, line_starts, ByteOffset(source, i)))

\* A loop iteration on any other char.
ScanOther ==
    /\ pc = "scan"
    /\ i <= Len(source)
    /\ source[i] \notin {"{", "}"}
    /\ Apply(Step(Current, line_starts, source[i], ByteOffset(source, i)))

\* The iterator is exhausted: "folding_ranges" is returned.
Return ==
    /\ pc = "scan"
    /\ i > Len(source)
    /\ pc' = "done"
    /\ UNCHANGED <<source, line_starts, i, stack, folding_ranges, popped, calls, prev_result>>

Next == BuildLineStarts \/ ScanOpen \/ ScanClose \/ ScanOther \/ Return

Spec == Init /\ [][Next]_vars

\* The sources made of '{', '}' and line breaks only, which may be longer.
BraceSources == UNION {[1..n -> {"{", "}", "\n"}] : n \in 0..MaxBraceLen}

BraceInit ==
    /\ source \in BraceSources
    /\ line_starts = <<>>
    /\ i = 1
    /\ stack = <<>>
    /\ folding_ranges = <<>>
    /\ pc = "build"
    /\ popped = <<>>
    /\ calls = 1
    /\ prev_result = <<>>

\* The scan on the sources of BraceSources.
BraceSpec == BraceInit /\ [][Next]_vars

----------------------------------------------------------------------------
(* The '}' branch on line numbers of full machine-word width.              *)
(*                                                                         *)
(* A line number is a usize.  On a 64-bit build it can exceed 32 bits (a    *)
(* source with 2^32 line breaks or more), which neither an enumerated      *)
(* source text nor a single integer of the checker can hold.  Here a usize *)
(* is the record [top, mid, low] of value top * 2^32 + mid * 2^16 + low,   *)
(* and the text and its table are left out: by the line lookup, a '{' after *)
(* s line breaks and a '}' after e >= s line breaks get the lines s and e. *)
(* On a 32-bit build (wasm32) top is always 0.                             *)

\* The 16-bit limbs explored: both ends of the range and their neighbours.
Limbs == {0, 1, 2, 65535}

\* The line numbers explored.
WideLines == [top : 0..MaxTop, mid : {0, 65535}, low : Limbs]

\* a < b on usize
WideLess(a, b) ==
    \/ a.top < b.top
    \/ a.top = b.top /\ a.mid < b.mid
    \/ a.top = b.top /\ a.mid = b.mid /\ a.low < b.low

\* "as u32" on a usize: the low 32 bits.
WideAsU32(w) == [top |-> 0, mid |-> w.mid % 65536, low |-> w.low % 65536]

\* if line_number > start_line
WideShouldEmit(line_number, start_line) == WideLess(start_line, line_number)

\* FoldingRange { start_line: start_line as u32, .., end_line: line_number as u32, .. }
WideMakeRange(start_line, line_number) ==
    [start_line      |-> WideAsU32(start_line),
     start_character |-> None,
     end_line        |-> WideAsU32(line_number),
     end_character   |-> None,
     kind            |-> None,
     collapsed_text  |-> None]

\* The loop is about to scan a '{'; the text is not represented.
WideInit ==
    /\ source = <<>>
    /\ line_starts = <<>>
    /\ i = 1
    /\ stack = <<>>
    /\ folding_ranges = <<>>
    /\ pc = "scan"
    /\ popped = <<>>
    /\ calls = 1
    /\ prev_result = <<>>

\* if c == '{' { ... stack.push((offset, line_number)); } on line line_number
WideOpen ==
    /\ pc = "scan"
    /\ stack = <<>>
    /\ \E line_number \in WideLines :
           stack' = Append(stack, [line |-> line_number])
    /\ UNCHANGED <<source, line_starts, i, folding_ranges, pc, popped, calls, prev_result>>

\* else if c == '}' { ... } on line line_number, not before the line of the '{'
WideClose ==
    /\ pc = "scan"
    /\ stack # <<>>
    /\ \E line_number \in WideLines :
           LET p          == Pop(stack)
               start_line == p.entry.line
               emit       == WideShouldEmit(line_number, start_line)
           IN  /\ ~WideLess(line_number, start_line)
               /\ stack' = p.rest
               /\ folding_ranges' =
                      IF emit
                      THEN Push(folding_ranges, WideMakeRange(start_line, line_number))
                      ELSE folding_ranges
               /\ popped' = Append(popped, [start_line  |-> start_line,
                                            line_number |-> line_number,
                                            emitted     |-> emit])
    /\ pc' = "done"
    /\ UNCHANGED <<source, line_starts, i, calls, prev_result>>

WideNext == WideOpen \/ WideClose

WideSpec == WideInit /\ [][WideNext]_vars

\* The loop runs without suspension points: an enabled step is taken.
LiveSpec == Spec /\ WF_vars(Next)

\* Mutant of Reinvoke: the result vector outlives the call and is reused.
Reinvoke_KeepRanges ==
    /\ pc = "done"
    /\ calls < MaxCalls
    /\ calls' = calls + 1
    /\ prev_result' = folding_ranges
    /\ line_starts' = <<>>
    /\ i' = 1
    /\ stack' = Fresh.stack
    /\ popped' = Fresh.popped
    /\ pc' = "build"
    /\ UNCHANGED <<source, folding_ranges>>

\* A second call of get_folding_ranges on the same source: every local is
\* created anew (Vec::new(), collect()).
Reinvoke ==
    /\ pc = "done"
    /\ calls < MaxCalls
    /\ calls' = calls + 1
    /\ prev_result' = folding_ranges
    /\ line_starts' = <<>>
    /\ i' = 1
    /\ stack' = Fresh.stack
    /\ folding_ranges' = Fresh.folding_ranges
    /\ popped' = Fresh.popped
    /\ pc' = "build"
    /\ UNCHANGED source

NextTwice == Next \/ Reinvoke

SpecTwice == Init /\ [][NextTwice]_vars

----------------------------------------------------------------------------
(* Reference notions, defined on the source text alone *)

TypeOK ==
    /\ source \in Sources
    /\ pc \in {"build", "scan", "done", "panic"}
    /\ i \in 1..(Len(source) + 1)
    /\ calls \in 1..MaxCalls

\* 0-indexed line of the k-th char: the line breaks strictly before it.
RefLine(src, k) == Cardinality({j \in 1..(k - 1) : src[j] = "\n"})

Max(S) == CHOOSE m \in S : \A n \in S : n <= m

\* Reference brace matching of the first k chars: each '}' is paired with
\* the most recent still-unpaired '{' before it, if any.
RECURSIVE RefPairs(_, _)
RefPairs(src, k) ==
    IF k = 0 THEN {}
    ELSE LET prev     == RefPairs(src, k - 1)
             unpaired == {a \in 1..(k - 1) :
                             src[a] = "{" /\ \A p \in prev : p[1] # a}
         IN  IF src[k] = "}" /\ unpaired # {}
             THEN prev \cup {<<Max(unpaired), k>>}
             ELSE prev

\* The matched pairs of the whole source whose braces are on different lines.
MultiLinePairs(src) ==
    {p \in RefPairs(src, Len(src)) : RefLine(src, p[1]) # RefLine(src, p[2])}

\* How many times the pair of lines (s, e) occurs in a result.
Occurrences(ranges, s, e) ==
    Cardinality({k \in 1..Len(ranges) :
                    ranges[k].start_line = s /\ ranges[k].end_line = e})

Finished == pc = "done"

----------------------------------------------------------------------------
(* Claims *)

\* C1: the multiset of (start_line, end_line) pairs returned is exactly the
\* multiset given by the reference brace matching: one range per matched
\* pair whose '{' and '}' lines differ, with those two lines, and nothing
\* else; duplicates are kept.
C1_RangesAreMatchedPairs ==
    Finished =>
        /\ Len(folding_ranges) = Cardinality(MultiLinePairs(source))
        /\ \A s, e \in 0..Len(source) :
               Occurrences(folding_ranges, s, e) =
                   Cardinality({p \in MultiLinePairs(source) :
                                   /\ RefLine(source, p[1]) = s
                                   /\ RefLine(source, p[2]) = e})

\* A finished scan that returned the same pair of lines twice.
C1_Witness ==
    /\ Finished
    /\ \E s, e \in 0..Len(source) : Occurrences(folding_ranges, s, e) >= 2

\* C2: after every step every range of the result has end_line > start_line;
\* a matched pair on a single line emits no range.
C2_NoSingleLineRange ==
    /\ \A k \in 1..Len(folding_ranges) :
           folding_ranges[k].end_line > folding_ranges[k].start_line
    /\ \A k \in 1..Len(popped) :
           popped[k].line_number = popped[k].start_line => ~popped[k].emitted

\* A '}' has matched a '{' of its own line, and another pair made a range.
C2_Witness ==
    /\ \E k \in 1..Len(popped) : popped[k].line_number = popped[k].start_line
    /\ folding_ranges # <<>>

\* C3: the scan is total: it never panics (the line lookup never underflows,
\* an empty pop is no failure), it has taken one step per character when it
\* returns, and it does return.
C3_Total ==
    /\ [](pc # "panic")
    /\ [](pc \in {"scan", "done"} => ~Underflows(line_starts, ByteOffset(source, i)))
    /\ [](Finished => i = Len(source) + 1)
    /\ [][pc = "scan" /\ pc' = "scan" => i' = i + 1]_vars
    /\ <>Finished

\* A scan of an unbalanced text returned: a '}' found the stack empty and a
\* '{' is left on the stack.
C3_Witness ==
    /\ Finished
    /\ stack # <<>>
    /\ Len(popped) < Cardinality({k \in 1..Len(source) : source[k] = "}"})

\* The source without its k-th char.
RemoveAt(src, k) == SubSeq(src, 1, k - 1) \o SubSeq(src, k + 1, Len(src))

\* The (start line, end line, emitted) of the pops of a scan, in order.
PopLines(pops) ==
    [n \in 1..Len(pops) |->
        <<pops[n].start_line, pops[n].line_number, pops[n].emitted>>]

\* The '}' already scanned that popped nothing.
IgnoredCloses ==
    {k \in 1..(i - 1) :
        /\ source[k] = "}"
        /\ \A n \in 1..Len(popped) : popped[n].close_offset # ByteOffset(source, k)}

\* C4: a '}' scanned on an empty stack emits nothing, leaves the stack empty
\* and the result unchanged and raises no error; the braces after it are
\* matched as if that '}' were not in the input.
C4_UnmatchedCloseIgnored ==
    /\ [][(pc = "scan" /\ i <= Len(source) /\ source[i] = "}" /\ stack = <<>>)
            => (/\ stack' = <<>>
                /\ folding_ranges' = folding_ranges
                /\ popped' = popped
                /\ pc' = "scan")]_vars
    /\ [](Finished =>
            \A k \in IgnoredCloses :
                LET without == RemoveAt(source, k)
                    st      == Loop(Fresh, without, LineStarts(without), 1)
                IN  /\ ~st.panicked
                    /\ st.folding_ranges = folding_ranges
                    /\ PopLines(st.popped) = PopLines(popped)
                    /\ Len(st.stack) = Len(stack))

\* A '}' was ignored and a pair after it made a range.
C4_Witness ==
    /\ Finished
    /\ \E k \in IgnoredCloses : \E n \in 1..Len(popped) :
           /\ popped[n].emitted
           /\ popped[n].open_offset > ByteOffset(source, k)

\* The '{' of the source that the reference matching leaves unpaired.
UnmatchedOpens(src) ==
    {a \in 1..Len(src) :
        src[a] = "{" /\ \A p \in RefPairs(src, Len(src)) : p[1] # a}

\* C5: a '{' still on the stack at the end of input (one with no
\* corresponding '}') has produced no range, while the pairs matched before
\* or inside it have produced theirs.
C5_UnmatchedOpenEmitsNothing ==
    Finished =>
        /\ {stack[n].offset : n \in 1..Len(stack)} =
               {ByteOffset(source, a) : a \in UnmatchedOpens(source)}
        /\ \A n \in 1..Len(stack) : \A m \in 1..Len(popped) :
               popped[m].open_offset # stack[n].offset
        /\ Len(folding_ranges) =
               Cardinality({m \in 1..Len(popped) : popped[m].emitted})
        /\ \A pr \in MultiLinePairs(source) : \E m \in 1..Len(popped) :
               /\ popped[m].emitted
               /\ popped[m].open_offset = ByteOffset(source, pr[1])
               /\ popped[m].close_offset = ByteOffset(source, pr[2])

\* The input ended with a '{' on the stack, and a pair inside it made a range.
C5_Witness ==
    /\ Finished
    /\ stack # <<>>
    /\ \E m \in 1..Len(popped) :
           popped[m].emitted /\ popped[m].open_offset > stack[1].offset

\* Number of occurrences of c among the chars already scanned.
Seen(c) == Cardinality({k \in 1..(i - 1) : source[k] = c})

\* C6: after every prefix of the scan the number of ranges is at most the
\* number of '{' seen and at most the number of '}' seen; an input without
\* '{' or without '}' yields an empty result.
C6_CountBound ==
    /\ Len(folding_ranges) <= Seen("{")
    /\ Len(folding_ranges) <= Seen("}")
    /\ (Finished /\ (Seen("{") = 0 \/ Seen("}") = 0)) => folding_ranges = <<>>

\* Every brace seen so far is part of a pair that made a range.
C6_Witness ==
    /\ Len(folding_ranges) = 2
    /\ Seen("{") = 2
    /\ Seen("}") = 2

\* The pops that made a range, in the order of their '}'.
IsEmitted(p) == p.emitted
EmittedPops == SelectSeq(popped, IsEmitted)

\* Position in the result of the range made at the '}' at char index k, or
\* 0 when that '}' made none.
RangeIndex(k) ==
    LET hits == {n \in 1..Len(EmittedPops) :
                    EmittedPops[n].close_offset = ByteOffset(source, k)}
    IN  IF hits = {} \/ Len(folding_ranges) # Len(EmittedPops) THEN 0 ELSE Max(hits)

\* The pair outer encloses the pair inner.
Encloses(outer, inner) == outer[1] < inner[1] /\ inner[2] < outer[2]

\* C7: the result is in discovery order: a range is only ever appended, at a
\* '}' step, and never moved or removed afterwards; ranges are in the order
\* of their closing braces, so the range of an inner pair precedes the range
\* of a pair enclosing it, and end_line never decreases along the result.
C7_DiscoveryOrder ==
    /\ [][folding_ranges' # folding_ranges =>
            /\ pc = "scan" /\ i <= Len(source) /\ source[i] = "}"
            /\ Len(folding_ranges') = Len(folding_ranges) + 1
            /\ SubSeq(folding_ranges', 1, Len(folding_ranges)) = folding_ranges]_vars
    /\ [](/\ Len(folding_ranges) = Len(EmittedPops)
          /\ \A n \in 1..Len(EmittedPops) :
                 /\ folding_ranges[n].start_line = EmittedPops[n].start_line
                 /\ folding_ranges[n].end_line = EmittedPops[n].line_number
          /\ \A m, n \in 1..Len(EmittedPops) :
                 m < n => EmittedPops[m].close_offset < EmittedPops[n].close_offset)
    /\ [](\A inner, outer \in RefPairs(source, i - 1) :
              (/\ Encloses(outer, inner)
               /\ RangeIndex(inner[2]) # 0
               /\ RangeIndex(outer[2]) # 0)
              => RangeIndex(inner[2]) < RangeIndex(outer[2]))
    /\ [](\A m, n \in 1..Len(folding_ranges) :
              m < n => folding_ranges[m].end_line <= folding_ranges[n].end_line)

\* An inner and an enclosing pair both made a range, the inner one first,
\* and the result is not sorted by start_line.
C7_Witness ==
    /\ Finished
    /\ Len(folding_ranges) = 2
    /\ folding_ranges[1].start_line > folding_ranges[2].start_line
    /\ \E inner, outer \in RefPairs(source, Len(source)) :
           /\ Encloses(outer, inner)
           /\ RangeIndex(inner[2]) = 1
           /\ RangeIndex(outer[2]) = 2

\* outer is the pair immediately enclosing inner.
ImmediatelyEncloses(outer, inner, pairs) ==
    /\ Encloses(outer, inner)
    /\ \A mid \in pairs : ~(Encloses(outer, mid) /\ Encloses(mid, inner))

\* C8: when an inner matched pair and the pair immediately enclosing it both
\* produce ranges R and R', R'.start_line <= R.start_line and
\* R.end_line <= R'.end_line.
C8_Nesting ==
    \A inner, outer \in RefPairs(source, i - 1) :
        (/\ ImmediatelyEncloses(outer, inner, RefPairs(source, i - 1))
         /\ RangeIndex(inner[2]) # 0
         /\ RangeIndex(outer[2]) # 0)
        => LET R  == folding_ranges[RangeIndex(inner[2])]
               R1 == folding_ranges[RangeIndex(outer[2])]
           IN  R1.start_line <= R.start_line /\ R.end_line <= R1.end_line

\* A pair and the pair immediately enclosing it both made a range, and the
\* two ranges differ.
C8_Witness ==
    \E inner, outer \in RefPairs(source, i - 1) :
        /\ ImmediatelyEncloses(outer, inner, RefPairs(source, i - 1))
        /\ RangeIndex(inner[2]) # 0
        /\ RangeIndex(outer[2]) # 0
        /\ folding_ranges[RangeIndex(inner[2])] # folding_ranges[RangeIndex(outer[2])]

\* The set of the ranges of a result.
RangeSet(ranges) == {ranges[n] : n \in 1..Len(ranges)}

C10_OptionalFieldsUnset ==
    \A n \in 1..Len(folding_ranges) :
        /\ folding_ranges[n].start_character = None
        /\ folding_ranges[n].end_character = None
        /\ folding_ranges[n].kind = None
        /\ folding_ranges[n].collapsed_text = None
        /\ folding_ranges[n].start_line \in Nat
        /\ folding_ranges[n].end_line \in Nat
        /\ DOMAIN folding_ranges[n] =
               {"start_line", "start_character", "end_line", "end_character",
                "kind", "collapsed_text"}

\* A range has been emitted.
C10_Witness == Len(folding_ranges) > 0 /\ folding_ranges[1].end_line = 2

\* Byte offset of the k-th char, counted on the text: one byte per char
\* before it, and one more for each two-byte char.
RefOffset(src, k) ==
    (k - 1) + Cardinality({j \in 1..(k - 1) : src[j] = "e'"})

\* The char indices of the line breaks of src.
LineBreaks(src) == {k \in 1..Len(src) : src[k] = "\n"}

\* line_starts exists from the end of the build on.
Built == pc \in {"scan", "done"}

\* C11: the line-offset table has line_starts[0] = 0, is strictly
\* increasing, has one entry more than the source has line breaks ([0] for
\* the empty source), every later entry is the offset just after a line
\* break, in source order, and the scan does not modify it.
C11_LineStartsTable ==
    /\ [](Built =>
            /\ Len(line_starts) = Cardinality(LineBreaks(source)) + 1
            /\ line_starts[1] = 0
            /\ \A m, n \in 1..Len(line_starts) :
                   m < n => line_starts[m] < line_starts[n]
            /\ {line_starts[n] : n \in 2..Len(line_starts)} =
                   {RefOffset(source, k) + 1 : k \in LineBreaks(source)}
            /\ (source = <<>> => line_starts = <<0>>))
    /\ [][Built => line_starts' = line_starts]_vars

\* The table of a scanned source with two line breaks, the first of them
\* after a two-byte char.
C11_Witness ==
    /\ Finished
    /\ Len(line_starts) = 3
    /\ line_starts[2] > (CHOOSE k \in LineBreaks(source) : \A j \in LineBreaks(source) : k <= j)

\* The char index of the char at byte offset o of the source, 0 if none.
CharAt(o) ==
    LET hits == {k \in 1..Len(source) : RefOffset(source, k) = o}
    IN  IF hits = {} THEN 0 ELSE CHOOSE k \in hits : TRUE

\* The greatest 0-based index n with ls[n] <= o (-1 if there is none).
GreatestIndexAtMost(ls, o) ==
    LET below == {n \in 0..(Len(ls) - 1) : ls[n + 1] <= o}
    IN  IF below = {} THEN 0 - 1 ELSE Max(below)

\* C12: for every brace, at byte offset o, the line number the lookup gives
\* (partition_point(line_start <= o) - 1) is the greatest index i with
\* line_starts[i] <= o, and is the number of line breaks strictly before o;
\* this is the line recorded for the brace on the stack and at its pop.
C12_LineLookup ==
    /\ Built =>
           \A k \in 1..Len(source) :
               source[k] \in {"{", "}"} =>
                   LET o == RefOffset(source, k)
                   IN  /\ LineNumber(line_starts, o) =
                              GreatestIndexAtMost(line_starts, o)
                       /\ LineNumber(line_starts, o) = RefLine(source, k)
    /\ \A n \in 1..Len(stack) :
           /\ CharAt(stack[n].offset) # 0
           /\ stack[n].line = RefLine(source, CharAt(stack[n].offset))
    /\ \A n \in 1..Len(popped) :
           /\ CharAt(popped[n].close_offset) # 0
           /\ popped[n].line_number = RefLine(source, CharAt(popped[n].close_offset))

\* A '{' that is the first byte of line 2, after a two-byte char, is on the
\* stack, and a '}' of line 1 has been looked up as well.
C12_Witness ==
    /\ stack # <<>>
    /\ stack[Len(stack)].line = 2
    /\ stack[Len(stack)].offset = line_starts[3]
    /\ stack[Len(stack)].offset >= CharAt(stack[Len(stack)].offset)
    /\ \E n \in 1..Len(popped) : popped[n].line_number = 1

\* The step about to be taken scans the char c.
Scanning(c) == pc = "scan" /\ i <= Len(source) /\ source[i] = c

\* C13: whenever a '}' pops a stack entry, the entry's line number is at most
\* the line number of that '}' and its offset is strictly smaller.
C13_PoppedBeforeClose ==
    /\ [][(Scanning("}") /\ stack # <<>>) =>
            /\ stack[Len(stack)].line <= LineNumber(line_starts, ByteOffset(source, i))
            /\ stack[Len(stack)].offset < ByteOffset(source, i)
            /\ Len(popped') = Len(popped) + 1]_vars
    /\ [](\A n \in 1..Len(popped) :
              /\ popped[n].start_line <= popped[n].line_number
              /\ popped[n].open_offset < popped[n].close_offset)

\* One '}' popped a '{' of its own line and another a '{' of an earlier line.
C13_Witness ==
    /\ \E n \in 1..Len(popped) : popped[n].start_line = popped[n].line_number
    /\ \E n \in 1..Len(popped) : popped[n].start_line < popped[n].line_number

\* The '{' among the first k chars that the reference matching of those
\* chars leaves unpaired.
OpenIn(src, k) ==
    {a \in 1..k : src[a] = "{" /\ \A p \in RefPairs(src, k) : p[1] # a}

\* C14: the scan is a depth machine: it starts with an empty stack; '{'
\* grows the stack by one, '}' shrinks it by one when it is non-empty and
\* leaves it empty otherwise; after any prefix the stack size is the number
\* of '{' of the prefix still unmatched; the depth left at the end of input
\* is dropped without output.
C14_DepthMachine ==
    /\ [](pc = "build" => stack = <<>>)
    /\ [][Scanning("{") => Len(stack') = Len(stack) + 1]_vars
    /\ [][Scanning("}") =>
            Len(stack') = IF Len(stack) > 0 THEN Len(stack) - 1 ELSE 0]_vars
    /\ [](Len(stack) = Cardinality(OpenIn(source, i - 1)))
    /\ [][(pc = "scan" /\ pc' = "done") =>
            /\ i = Len(source) + 1
            /\ folding_ranges' = folding_ranges]_vars

\* The input ended at depth 2, after the depth had gone back to 0 at least
\* once.
C14_Witness ==
    /\ Finished
    /\ Len(stack) = 2
    /\ \E n \in 1..Len(popped) : popped[n].open_offset < stack[1].offset

\* 0-based line that the table gives to the byte offset of the k-th char.
TableLine(k) == LineNumber(line_starts, ByteOffset(source, k))

\* C15: a step on a char other than '{' and '}' leaves the stack and the
\* result unchanged; a line break only changes the line number that the
\* table gives to what follows it.
C15_OtherCharsNoEffect ==
    /\ [][(pc = "scan" /\ i <= Len(source) /\ source[i] \notin {"{", "}"}) =>
            /\ stack' = stack
            /\ folding_ranges' = folding_ranges
            /\ popped' = popped
            /\ pc' = "scan"]_vars
    /\ [](Built =>
            \A k \in 1..Len(source) :
                TableLine(k + 1) =
                    IF source[k] = "\n" THEN TableLine(k) + 1 ELSE TableLine(k))

\* A line break and a two-byte char have been scanned with a '{' on the
\* stack.
C15_Witness ==
    /\ pc = "scan"
    /\ stack # <<>>
    /\ \E k \in 1..(i - 1) : source[k] = "\n" /\ RefOffset(source, k) > stack[1].offset
    /\ \E k \in 1..(i - 1) : source[k] = "e'" /\ RefOffset(source, k) > stack[1].offset

\* '{', '}' and the line break: the chars the scan tells apart.
IsStructural(c) == c \in {"{", "}", "\n"}

\* The sequence of '{', '}' and line breaks of a source.
Structural(src) == SelectSeq(src, IsStructural)

\* C16: the scanner has no lexical awareness: sources with the same sequence
\* of '{', '}' and line breaks, differing only in their other chars, give
\* identical results (each gives the result of their common sequence of
\* structural chars); a brace counts wherever it stands.
C16_NoLexicalAwareness ==
    Finished =>
        /\ folding_ranges = get_folding_ranges(Structural(source))
        /\ \A k \in 1..Len(source) :
               (~IsStructural(source[k])) =>
                   /\ folding_ranges =
                          get_folding_ranges([source EXCEPT ![k] = "a"])
                   /\ folding_ranges =
                          get_folding_ranges([source EXCEPT ![k] = "e'"])

\* A scan returned a range for a pair that has a two-byte char before it and
\* a one-byte char inside it.
C16_Witness ==
    /\ Finished
    /\ \E n \in 1..Len(popped) :
           /\ popped[n].emitted
           /\ \E k \in 1..Len(source) :
                  source[k] = "e'" /\ RefOffset(source, k) < popped[n].open_offset
           /\ \E k \in 1..Len(source) :
                  /\ source[k] = "a"
                  /\ RefOffset(source, k) > popped[n].open_offset
                  /\ RefOffset(source, k) < popped[n].close_offset

\* The range r1 spans the range r2.
Spans(r1, r2) == r1.start_line <= r2.start_line /\ r2.end_line <= r1.end_line

\* C18: no two ranges of a result partially cross (s1 < s2 < e1 < e2 never
\* happens): any two ranges are nested in each other or share at most one
\* boundary line.
C18_NoPartialCrossing ==
    \A m, n \in 1..Len(folding_ranges) :
        LET r1 == folding_ranges[m]
            r2 == folding_ranges[n]
        IN  /\ ~(/\ r1.start_line < r2.start_line
                 /\ r2.start_line < r1.end_line
                 /\ r1.end_line < r2.end_line)
            /\ \/ Spans(r1, r2)
               \/ Spans(r2, r1)
               \/ r1.end_line <= r2.start_line
               \/ r2.end_line <= r1.start_line

\* A result with a range spanning a different one, and a third range that
\* starts on the line where the spanning one ends.
C18_Witness ==
    /\ Finished
    /\ \E m, n, k \in 1..Len(folding_ranges) :
           /\ Spans(folding_ranges[m], folding_ranges[n])
           /\ folding_ranges[m] # folding_ranges[n]
           /\ folding_ranges[m].end_line = folding_ranges[k].start_line

\* C19: after any prefix of the scan the stack holds its entries in order of
\* occurrence: from bottom to top the byte offsets strictly increase and the
\* line numbers do not decrease, and every entry's offset is the position
\* of a '{' of the source already scanned.
C19_StackOrder ==
    /\ \A m, n \in 1..Len(stack) :
           m < n => /\ stack[m].offset < stack[n].offset
                    /\ stack[m].line <= stack[n].line
    /\ \A n \in 1..Len(stack) :
           \E k \in 1..(i - 1) :
               /\ source[k] = "{"
               /\ RefOffset(source, k) = stack[n].offset

\* Three entries on the stack, the upper two on one line, the lowest on an
\* earlier line, and offsets that are not char indices.
C19_Witness ==
    /\ Len(stack) = 3
    /\ stack[1].line < stack[2].line
    /\ stack[2].line = stack[3].line
    /\ stack[3].offset > i - 2

\* C17: the start_line and end_line stored in every emitted range are the
\* exact line numbers computed for the '{' and the '}': "as u32" does not
\* change the value, so end_line > start_line, tested before the
\* conversion, also holds of the stored fields.
C17_StoredLinesExact ==
    \A n \in 1..Len(folding_ranges) :
        /\ Len(popped) = Len(folding_ranges)
        /\ folding_ranges[n].start_line = popped[n].start_line
        /\ folding_ranges[n].end_line = popped[n].line_number
        /\ WideLess(folding_ranges[n].start_line, folding_ranges[n].end_line)

====
